---- MODULE Spec2Model ----
(***************************************************************************)
(* Model of the MWatch ingress engine (src/src/ingress/ingress_manager.rs) *)
(* IngressManager: a byte queue (rb), the frame state machine              *)
(* (match_rb / run_state_machine) and the dispatcher (process).            *)
(*                                                                         *)
(* Bytes are their ASCII codes.  One Process step is one call of           *)
(* IngressManager::process; one Write step is one call of                  *)
(* IngressManager::write.  The collaborators (application manager,         *)
(* notification manager, syscall parser) are observed through the log      *)
(* `calls`; their results are inputs of the Process step.                  *)
(***************************************************************************)
EXTENDS Integers, Sequences, FiniteSets, TLC

\* ------------------------------------------------------------------------
\* Bounds of the model
\* ------------------------------------------------------------------------
\* capacity of the frame buffer (Buffer's payload array), scaled down
BuffSize == 2
\* Spec: the host writes at most this many bytes in a run, one per write()
MaxBytes == 5
\* SpecFrames: the host writes at most this many frames in a run, one per
\* write()
MaxFrames == 2
\* SpecFlood: the host writes at most this many bursts in a run
MaxBursts == 3
\* the application manager may reject any of its first MaxRej byte writes
\* of one process() call
MaxRej == 1

\* ------------------------------------------------------------------------
\* Protocol constants
\* ------------------------------------------------------------------------
STX == 2
ETX == 3
PAYLOAD == 31
\* capacity of rb: Queue<u8, U512>
RbCapacity == 512

\* ASCII codes used as inputs
ChN == 78
ChS == 83
ChA == 65
\* ASCII '4'
Ch4 == 48 + 4

Delims == {STX, ETX, PAYLOAD}
\* the bytes the environment writes: the three delimiters, the three type
\* selectors ('A' is also a hex digit, 'N' and 'S' are not), and '4' (a hex
\* digit that is no type selector)
Bytes == {STX, ETX, PAYLOAD, ChN, ChS, ChA, Ch4}
NonDelims == Bytes \ Delims
HexChars == {ChA, Ch4}

States == {"Wait", "Init", "Payload", "ApplicationChecksum", "ApplicationStore",
           "NotificationSource", "NotificationTitle", "NotificationBody"}
Types == {"Unknown", "Application", "Notification", "Syscall"}

VARIABLES
    rb,         \* IngressManager.rb: the queued bytes, oldest first
    state,      \* IngressManager.state
    buffer,     \* IngressManager.buffer: [btype, payload]
    hex_chars,  \* IngressManager.hex_chars: <<c0, c1>>
    hex_idx,    \* IngressManager.hex_idx
    nsi,        \* IngressManager.nsi: <<i0, i1, i2>>
    nsi_idx,    \* IngressManager.nsi_idx
    panicked,   \* a panic!() was reached: the firmware has halted
    calls,      \* collaborator calls made by the process() call just made
    steps,      \* per byte dequeued by the process() call just made: a snapshot
    ret,        \* what match_rb returned in the process() call just made
    nwrites,    \* number of write() calls so far
    offered,    \* bytes handed to the write() call just made (0: none)
    nstx,       \* number of STX bytes dequeued so far
    ndispatch,  \* number of verify / add / from_str calls so far
    lastByte,   \* the byte dequeued last (0: none yet)
    lastMark,   \* the STX or ETX dequeued last (0: none yet)
    pin_idx,    \* InputManager.pin_idx
    raw_vector, \* InputManager.raw_vector
    last_vector,\* InputManager.last_vector
    result,     \* what the InputManager call just made returned
    sampled     \* the pin index process_result has read last (3: none yet)

vars == <<rb, state, buffer, hex_chars, hex_idx, nsi, nsi_idx, panicked,
          calls, steps, ret, nwrites, offered, nstx, ndispatch, lastByte, lastMark,
          pin_idx, raw_vector, last_vector, result, sampled>>

\* the variables of the ingress engine and of the input manager
ingress_vars ==
    <<rb, state, buffer, hex_chars, hex_idx, nsi, nsi_idx, panicked,
      calls, steps, ret, nwrites, offered, nstx, ndispatch, lastByte, lastMark>>
input_vars == <<pin_idx, raw_vector, last_vector, result, sampled>>

\* ------------------------------------------------------------------------
\* Sequences
\* ------------------------------------------------------------------------
\* number of occurrences of x in seq
Count(seq, x) == Cardinality({i \in 1..Len(seq) : seq[i] = x})

IsPrefix(p, seq) == Len(p) <= Len(seq) /\ SubSeq(seq, 1, Len(p)) = p

\* ------------------------------------------------------------------------
\* Buffer (crate::ingress::buffer)
\* ------------------------------------------------------------------------
\* Buffer::default()
BufferDefault == [btype |-> "Unknown", payload |-> <<>>]

\* Buffer::clear(): the write cursor returns to 0 and the type is forgotten
BufferClear(b) == [btype |-> "Unknown", payload |-> <<>>]

\* Buffer::write(byte) on engine m: appends at the cursor; writing past the
\* capacity is fatal
BufferWrite(m, byte) ==
    IF Len(m.buffer.payload) >= BuffSize
    THEN [m EXCEPT !.panicked = TRUE]
    ELSE [m EXCEPT !.buffer.payload = Append(@, byte)]

\* ------------------------------------------------------------------------
\* simple_hex::hex_byte_to_byte
\* ------------------------------------------------------------------------
\* value of one ASCII hex digit, -1 when the character is no hex digit
HexVal(c) ==
    IF c \in 48..57 THEN c - 48
    ELSE IF c \in 65..70 THEN c - 55
    ELSE IF c \in 97..102 THEN c - 87
    ELSE -1

hex_byte_to_byte(h, l) ==
    IF HexVal(h) < 0 \/ HexVal(l) < 0
    THEN [ok |-> FALSE, val |-> 0]
    ELSE [ok |-> TRUE, val |-> (HexVal(h) * 16 + HexVal(l)) % 256]

\* ------------------------------------------------------------------------
\* IngressManager::determine_type
\* ------------------------------------------------------------------------
\* variant: the default arm yields Syscall
determine_type_DefaultSyscall(type_byte) ==
    CASE type_byte = ChN -> "Notification"
      [] type_byte = ChS -> "Syscall"
      [] type_byte = ChA -> "Application"
      [] OTHER -> "Syscall"

determine_type(type_byte) ==
    CASE type_byte = ChN -> "Notification"
      [] type_byte = ChS -> "Syscall"
      [] type_byte = ChA -> "Application"
      [] OTHER -> "Unknown"

\* ------------------------------------------------------------------------
\* IngressManager::run_state_machine
\* ------------------------------------------------------------------------
\* A collaborator call is logged as a record; m.nwr counts the byte writes
\* handed to the application manager in this process() call, and the
\* oracle orc.rej names the ones it rejects.
Call(op, arg, ok) == [op |-> op, arg |-> arg, ok |-> ok]

\* State::Init arm
InitByte(m, byte) ==
    LET t == determine_type(byte) IN
    [m EXCEPT !.buffer.btype = t,
              !.state = IF t = "Unknown" THEN "Wait" ELSE @]

\* system.am().write_checksum_byte(byte) / write_ram_byte(byte) and the
\* unwrap_or_else that aborts to Wait on rejection
AmWrite(m, op, val, orc) ==
    LET n == m.nwr + 1
        ok == n \notin orc.rej
    IN [m EXCEPT !.nwr = n,
                 !.calls = Append(@, Call(op, val, ok)),
                 !.state = IF ok THEN @ ELSE "Wait"]

\* variant: the two characters are handed to the decoder in reverse
HexPair_Swapped(m, orc) ==
    LET r == hex_byte_to_byte(m.hex_chars[2], m.hex_chars[1]) IN
    IF r.ok
    THEN AmWrite(m, IF m.state = "ApplicationChecksum"
                    THEN "write_checksum_byte" ELSE "write_ram_byte",
                 r.val, orc)
    ELSE [m EXCEPT !.state = "Wait"]

\* a completed hex pair: decode and forward, or abort
HexPair(m, orc) ==
    LET r == hex_byte_to_byte(m.hex_chars[1], m.hex_chars[2]) IN
    IF r.ok
    THEN AmWrite(m, IF m.state = "ApplicationChecksum"
                    THEN "write_checksum_byte" ELSE "write_ram_byte",
                 r.val, orc)
    ELSE [m EXCEPT !.state = "Wait"]

\* State::ApplicationChecksum | State::ApplicationStore arm
HexByte(m, byte, orc) ==
    LET m1 == [m EXCEPT !.hex_chars[m.hex_idx + 1] = byte,
                        !.hex_idx = @ + 1]
    IN IF m1.hex_idx > 1
       THEN [HexPair(m1, orc) EXCEPT !.hex_idx = 0]
       ELSE m1

\* State::NotificationBody | NotificationTitle | NotificationSource arm
NotificationByte(m, byte) ==
    BufferWrite([m EXCEPT !.nsi_idx = @ + 1], byte)

\* variant: the Payload arm forgets to store the byte
run_state_machine_DropsPayload(m, byte, orc) ==
    CASE m.state = "Init" -> InitByte(m, byte)
      [] m.state = "Payload" -> m
      [] m.state \in {"ApplicationChecksum", "ApplicationStore"} ->
            HexByte(m, byte, orc)
      [] m.state \in {"NotificationBody", "NotificationTitle",
                      "NotificationSource"} -> NotificationByte(m, byte)
      [] OTHER -> m

run_state_machine(m, byte, orc) ==
    CASE m.state = "Init" -> InitByte(m, byte)
      [] m.state = "Payload" -> BufferWrite(m, byte)
      [] m.state \in {"ApplicationChecksum", "ApplicationStore"} ->
            HexByte(m, byte, orc)
      [] m.state \in {"NotificationBody", "NotificationTitle",
                      "NotificationSource"} -> NotificationByte(m, byte)
      [] OTHER -> m

\* ------------------------------------------------------------------------
\* IngressManager::match_rb
\* ------------------------------------------------------------------------
\* variant: the STX arm leaves the section cursor where it was
StxArm_KeepsCursor(m) ==
    [m EXCEPT !.hex_idx = 0,
              !.buffer = BufferClear(@),
              !.state = "Init"]

\* STX arm
StxArm(m) ==
    [m EXCEPT !.hex_idx = 0,
              !.nsi_idx = 0,
              !.buffer = BufferClear(@),
              !.state = "Init"]

\* variant: the ETX arm leaves the state as it is
EtxArm_KeepsState(m) == m

\* ETX arm (the return is in match_rb)
EtxArm(m) == [m EXCEPT !.state = "Wait"]

\* PAYLOAD arm, Type::Application
ApplicationSeparator(m) ==
    IF m.state = "ApplicationChecksum"
    THEN [m EXCEPT !.state = "ApplicationStore"]
    ELSE [m EXCEPT !.calls = Append(@, Call("kill", 0, TRUE)),
                   !.state = "ApplicationChecksum"]

\* variant: the second separator stores its index in the first slot
NotificationSeparator_WrongSlot(m) ==
    IF m.state = "NotificationSource"
    THEN [m EXCEPT !.nsi[1] = m.nsi_idx, !.state = "NotificationTitle"]
    ELSE IF m.state = "NotificationTitle"
    THEN [m EXCEPT !.nsi[1] = m.nsi_idx, !.state = "NotificationBody"]
    ELSE [m EXCEPT !.state = "NotificationSource"]

\* PAYLOAD arm, Type::Notification
NotificationSeparator(m) ==
    IF m.state = "NotificationSource"
    THEN [m EXCEPT !.nsi[1] = m.nsi_idx, !.state = "NotificationTitle"]
    ELSE IF m.state = "NotificationTitle"
    THEN [m EXCEPT !.nsi[2] = m.nsi_idx, !.state = "NotificationBody"]
    ELSE [m EXCEPT !.state = "NotificationSource"]

\* PAYLOAD arm
PayloadArm(m) ==
    CASE m.buffer.btype = "Unknown" -> [m EXCEPT !.state = "Wait"]
      [] m.buffer.btype = "Application" -> ApplicationSeparator(m)
      [] m.buffer.btype = "Notification" -> NotificationSeparator(m)
      [] OTHER -> [m EXCEPT !.state = "Payload"]

\* what the engine looks like between two bytes
Snapshot(m) ==
    [state |-> m.state, btype |-> m.buffer.btype,
     payload |-> m.buffer.payload, hex_idx |-> m.hex_idx,
     hex0 |-> m.hex_chars[1], lastByte |-> m.lastByte,
     lastMark |-> m.lastMark,
     nsi_idx |-> m.nsi_idx, ncalls |-> Len(m.calls),
     panicked |-> m.panicked]

\* one dequeued byte
ByteArm(m, byte, orc) ==
    CASE byte = STX -> StxArm(m)
      [] byte = ETX -> EtxArm(m)
      [] byte = PAYLOAD -> PayloadArm(m)
      [] OTHER -> run_state_machine(m, byte, orc)

\* the log entry of one dequeued byte
Logged(m, byte, m2) ==
    LET m3 == [m2 EXCEPT !.lastByte = byte,
                         !.lastMark = IF byte \in {STX, ETX} THEN byte ELSE @]
    IN [m3 EXCEPT !.steps = Append(@, [byte |-> byte, before |-> Snapshot(m),
                                       after |-> Snapshot(m3)])]

\* variant: the loop goes on after an ETX while bytes are queued
RECURSIVE match_rb_Drains(_, _, _)
match_rb_Drains(m, q, orc) ==
    IF q = <<>> \/ m.panicked
    THEN [m |-> m, rb |-> q, ret |-> "None"]
    ELSE LET byte == Head(q)
             after(m2) ==
                 IF byte = ETX /\ Tail(q) = <<>>
                 THEN [m |-> m2, rb |-> Tail(q), ret |-> m2.buffer.btype]
                 ELSE match_rb_Drains(m2, Tail(q), orc)
         IN CHOOSE r \in {after(m2) :
                    m2 \in {Logged(m, byte, ByteArm(m, byte, orc))}} : TRUE

\* the dequeue loop: returns the engine, the bytes left in rb and the
\* Option<Type> ("None" or the buffer type at the ETX); m2 is the engine
\* after the byte dequeued (the singleton set binds it to its value)
RECURSIVE match_rb(_, _, _)
match_rb(m, q, orc) ==
    IF q = <<>> \/ m.panicked
    THEN [m |-> m, rb |-> q, ret |-> "None"]
    ELSE LET byte == Head(q)
             after(m2) ==
                 IF byte = ETX
                 THEN [m |-> m2, rb |-> Tail(q), ret |-> m2.buffer.btype]
                 ELSE match_rb(m2, Tail(q), orc)
         IN CHOOSE r \in {after(m2) :
                    m2 \in {Logged(m, byte, ByteArm(m, byte, orc))}} : TRUE

\* ------------------------------------------------------------------------
\* IngressManager::process
\* ------------------------------------------------------------------------
\* Type::Application arm: verify(), a failure panics
DispatchApplication(m, orc) ==
    [m EXCEPT !.calls = Append(@, Call("verify", 0, orc.ok)),
              !.panicked = ~orc.ok]

\* Type::Notification arm
DispatchNotification(m, orc) ==
    LET m1 == [m EXCEPT !.nsi[3] = m.nsi_idx] IN
    [m1 EXCEPT !.calls = Append(@, Call("add",
                    [buf |-> m1.buffer.payload, nsi |-> m1.nsi], orc.ok))]

\* variant: a parse failure also clears the frame buffer
DispatchSyscall_FailureClears(m, orc) ==
    LET parsed == Append(m.calls,
                         Call("from_str", m.buffer.payload, orc.ok))
    IN IF orc.ok
       THEN [m EXCEPT !.calls = Append(parsed,
                                       Call("execute", m.buffer.payload, TRUE))]
       ELSE [m EXCEPT !.calls = parsed, !.buffer = BufferClear(@)]

\* Type::Syscall arm: parse, execute on success
DispatchSyscall(m, orc) ==
    LET parsed == Append(m.calls,
                         Call("from_str", m.buffer.payload, orc.ok))
    IN [m EXCEPT !.calls = IF orc.ok
                           THEN Append(parsed, Call("execute", m.buffer.payload, TRUE))
                           ELSE parsed]

\* variant: a completed Syscall frame is not dispatched
Dispatch_DropsSyscall(m, buffer_type, orc) ==
    CASE buffer_type = "None" -> m
      [] buffer_type = "Unknown" -> [m EXCEPT !.state = "Wait"]
      [] buffer_type = "Application" -> DispatchApplication(m, orc)
      [] buffer_type = "Notification" -> DispatchNotification(m, orc)
      [] buffer_type = "Syscall" -> m

Dispatch(m, buffer_type, orc) ==
    CASE buffer_type = "None" -> m
      [] buffer_type = "Unknown" -> [m EXCEPT !.state = "Wait"]
      [] buffer_type = "Application" -> DispatchApplication(m, orc)
      [] buffer_type = "Notification" -> DispatchNotification(m, orc)
      [] buffer_type = "Syscall" -> DispatchSyscall(m, orc)

\* the match on what match_rb returned; r is match_rb's result
process(r, orc) ==
    IF r.m.panicked
    THEN r
    ELSE [r EXCEPT !.m = Dispatch(r.m, r.ret, orc)]

\* ------------------------------------------------------------------------
\* The state machine
\* ------------------------------------------------------------------------
\* IngressManager::new()
Init ==
    /\ rb = <<>>
    /\ state = "Init"
    /\ buffer = BufferDefault
    /\ hex_chars = <<0, 0>>
    /\ hex_idx = 0
    /\ nsi = <<0, 0, 0>>
    /\ nsi_idx = 0
    /\ panicked = FALSE
    /\ calls = <<>>
    /\ steps = <<>>
    /\ ret = "None"
    /\ nwrites = 0
    /\ offered = 0
    /\ nstx = 0
    /\ ndispatch = 0
    /\ lastByte = 0
    /\ lastMark = 0
    /\ pin_idx = 0
    /\ raw_vector = 0
    /\ last_vector = 0
    /\ result = "None"
    /\ sampled = 3

\* ------------------------------------------------------------------------
\* Reading the log of a process() call
\* ------------------------------------------------------------------------
\* the bytes a process() call dequeued, in order
BytesOf(st) == [i \in 1..Len(st) |-> st[i].byte]

\* the dispatches among the collaborator calls: what process() does with a
\* completed frame
DispatchOps == {"verify", "add", "from_str"}
IsDispatch(c) == c.op \in DispatchOps
DispatchesOf(cs) == SelectSeq(cs, IsDispatch)

\* the engine as one record
Engine ==
    [state |-> state, buffer |-> buffer, hex_chars |-> hex_chars,
     hex_idx |-> hex_idx, nsi |-> nsi, nsi_idx |-> nsi_idx,
     panicked |-> panicked, calls |-> <<>>, steps |-> <<>>, nwr |-> 0,
     lastByte |-> lastByte, lastMark |-> lastMark]

\* the collaborators' answers during one process() call: which byte writes
\* the application manager rejects (rej), and whether the one dispatch at
\* the ETX (verify, add or from_str) succeeds (ok)
Rejections == [rej : SUBSET (1..MaxRej)]
Answers == [ok : BOOLEAN]

\* IngressManager::new() as one record
new ==
    [state |-> "Init", buffer |-> BufferDefault, hex_chars |-> <<0, 0>>,
     hex_idx |-> 0, nsi |-> <<0, 0, 0>>, nsi_idx |-> 0,
     panicked |-> FALSE, calls |-> <<>>, steps |-> <<>>, nwr |-> 0,
     lastByte |-> 0, lastMark |-> 0]

\* what one process() call can do to engine m with queue q
Outcomes(m, q) ==
    {process(r, a) : r \in {match_rb(m, q, o) : o \in Rejections},
                     a \in Answers}

\* variant: the queue keeps one slot free
Write_OneSlotFree(data) ==
    /\ ~panicked
    /\ IF Len(rb) + Len(data) <= RbCapacity - 1
       THEN rb' = rb \o data /\ panicked' = FALSE
       ELSE /\ rb' = rb \o SubSeq(data, 1, RbCapacity - 1 - Len(rb))
            /\ panicked' = TRUE
    /\ nwrites' = nwrites + 1
    /\ offered' = Len(data)
    /\ calls' = <<>> /\ steps' = <<>> /\ ret' = "None"
    /\ UNCHANGED <<state, buffer, hex_chars, hex_idx, nsi, nsi_idx,
                   nstx, ndispatch, lastByte, lastMark>>
    /\ UNCHANGED input_vars

\* IngressManager::write(data): enqueue byte by byte, panic on overflow
Write(data) ==
    /\ ~panicked
    /\ IF Len(rb) + Len(data) <= RbCapacity
       THEN rb' = rb \o data /\ panicked' = FALSE
       ELSE /\ rb' = rb \o SubSeq(data, 1, RbCapacity - Len(rb))
            /\ panicked' = TRUE
    /\ nwrites' = nwrites + 1
    /\ offered' = Len(data)
    /\ calls' = <<>> /\ steps' = <<>> /\ ret' = "None"
    /\ UNCHANGED <<state, buffer, hex_chars, hex_idx, nsi, nsi_idx,
                   nstx, ndispatch, lastByte, lastMark>>
    /\ UNCHANGED input_vars

\* IngressManager::process(system)
Process ==
    /\ ~panicked
    /\ \E r \in Outcomes(Engine, rb) :
          /\ rb' = r.rb
          /\ state' = r.m.state
          /\ buffer' = r.m.buffer
          /\ hex_chars' = r.m.hex_chars
          /\ hex_idx' = r.m.hex_idx
          /\ nsi' = r.m.nsi
          /\ nsi_idx' = r.m.nsi_idx
          /\ panicked' = r.m.panicked
          /\ calls' = r.m.calls
          /\ steps' = r.m.steps
          /\ ret' = r.ret
          /\ nstx' = nstx + Count(BytesOf(r.m.steps), STX)
          /\ ndispatch' = ndispatch + Len(DispatchesOf(r.m.calls))
          /\ lastByte' = r.m.lastByte
          /\ lastMark' = r.m.lastMark
    /\ offered' = 0
    /\ UNCHANGED nwrites
    /\ UNCHANGED input_vars

\* the host writes one byte
WriteByte ==
    /\ nwrites < MaxBytes
    /\ \E b \in Bytes : Write(<<b>>)

Next == WriteByte \/ Process

Spec == Init /\ [][Next]_vars

\* ------------------------------------------------------------------------
\* Whole frames
\* ------------------------------------------------------------------------
\* the bodies of the written one-field frames: none, one byte, as many
\* bytes as the frame buffer of the bounds holds, and one more
Bodies == {<<>>, <<ChS>>, <<Ch4, ChS>>, <<ChS, Ch4, ChN>>}
\* source, title and body of the written Notification frames
NotificationFields ==
    {<< <<>>, <<>>, <<>> >>, << <<ChS>>, <<>>, <<Ch4>> >>,
     << <<>>, <<Ch4>>, <<ChS>> >>, << <<ChS>>, <<Ch4>>, <<>> >>,
     << <<ChA, Ch4>>, <<>>, <<>> >>, << <<ChS>>, <<Ch4>>, <<ChN>> >>}
\* checksum and firmware of the written Application frames, in hex
ApplicationFields ==
    {<< <<Ch4, ChA, ChA, Ch4>>, <<>> >>, << <<Ch4, ChA, ChA, Ch4>>, <<ChA, ChA>> >>,
     << <<ChA, ChA, Ch4, ChA>>, <<Ch4, ChA>> >>,
     << <<ChA, Ch4, Ch4, Ch4>>, <<ChA, Ch4, Ch4, ChA>> >>}
\* the same with a character that is no hex digit
BadApplicationFields ==
    {<< <<Ch4, ChN, ChA, Ch4>>, <<ChA, Ch4>> >>,
     << <<Ch4, ChA, ChA, Ch4>>, <<ChS, ChA>> >>}
\* the same with a checksum field of an odd number of characters
OddApplicationFields == {<< <<Ch4, ChA, ChA>>, <<Ch4, ChA, Ch4>> >>}
\* the bodies written directly after the type byte
BareBodies == {<<>>, <<ChS>>}

\* a frame with one field
TypedFrame(t, body) == <<STX, t, PAYLOAD>> \o body \o <<ETX>>
SyscallFrame(body) == TypedFrame(ChS, body)
NotificationFrame(src, title, body) ==
    <<STX, ChN, PAYLOAD>> \o src \o <<PAYLOAD>> \o title \o <<PAYLOAD>>
        \o body \o <<ETX>>
ApplicationFrame(c, f) ==
    <<STX, ChA, PAYLOAD>> \o c \o <<PAYLOAD>> \o f \o <<ETX>>
\* a frame whose body follows the type byte with no separator
BareFrame(t, body) == <<STX, t>> \o body \o <<ETX>>
\* frames the link cut off before the ETX
CutFrames == {<<STX, ChN, PAYLOAD, ChS>>, <<STX, ChA, PAYLOAD, ChA>>}

\* a frame whose ETX the link repeats
RepeatedEndFrames == {SyscallFrame(<<ChS>>) \o <<ETX>>}

SyscallFrames == {SyscallFrame(b) : b \in Bodies}
NotificationFrames ==
    {NotificationFrame(f[1], f[2], f[3]) : f \in NotificationFields}
OneFieldNotificationFrames == {TypedFrame(ChN, b) : b \in Bodies \ {<<>>}}
ApplicationFrames == {ApplicationFrame(f[1], f[2]) : f \in ApplicationFields}
BadApplicationFrames ==
    {ApplicationFrame(f[1], f[2]) : f \in BadApplicationFields}
OddApplicationFrames ==
    {ApplicationFrame(f[1], f[2]) : f \in OddApplicationFields}
BareFrames == {BareFrame(t, b) : t \in {ChN, ChS}, b \in BareBodies}

Frames ==
    SyscallFrames \cup NotificationFrames \cup OneFieldNotificationFrames
    \cup ApplicationFrames
    \cup BadApplicationFrames \cup OddApplicationFrames \cup BareFrames \cup CutFrames
    \cup RepeatedEndFrames

\* the host writes one frame
WriteFrame ==
    /\ nwrites < MaxFrames
    /\ \E data \in Frames : Write(data)

NextFrames == WriteFrame \/ Process

SpecFrames == Init /\ [][NextFrames]_vars

\* the frames written while the engine is polled: one-field frames, short
\* and long Notification frames, an Application frame and the cut frames
PolledFrames ==
    SyscallFrames
    \cup {NotificationFrame(<<ChS>>, <<>>, <<Ch4>>),
          NotificationFrame(<<ChS>>, <<Ch4>>, <<ChN>>),
          ApplicationFrame(<<Ch4, ChA, ChA, Ch4>>, <<ChA, ChA>>)}
    \cup CutFrames

\* the host writes one of these frames
WritePolledFrame ==
    /\ nwrites < MaxFrames
    /\ \E data \in PolledFrames : Write(data)

NextPolled == WritePolledFrame \/ Process

\* the polling loop calls process() again and again
SpecPolled == Init /\ [][NextPolled]_vars /\ WF_vars(Process)

\* ------------------------------------------------------------------------
\* Bursts that fill the queue
\* ------------------------------------------------------------------------
\* n frame ends: link noise that one process() call dequeues byte by byte
Filler(n) == [i \in 1..n |-> ETX]
\* burst lengths around the queue's capacity
BurstLens == {1, RbCapacity \div 2, RbCapacity \div 2 + 1, RbCapacity}

\* the host writes one burst
WriteBurst ==
    /\ nwrites < MaxBursts
    /\ \E n \in BurstLens : Write(Filler(n))

NextFlood == WriteBurst \/ Process

SpecFlood == Init /\ [][NextFlood]_vars

\* ------------------------------------------------------------------------
\* InputManager (src/src/system/input.rs)
\* ------------------------------------------------------------------------
LEFT == 1
MIDDLE == 2
RIGHT == 4
LEFT_MIDDLE == LEFT + MIDDLE
RIGHT_MIDDLE == RIGHT + MIDDLE
LEFT_RIGHT == LEFT + RIGHT
ALL == LEFT + MIDDLE + RIGHT
NONE == 0

\* bit p of the u8 v
Bit(v, p) == (v \div (2 ^ p)) % 2
\* v | (1 << p) and v & !(1 << p)
SetBit(v, p) == IF Bit(v, p) = 1 THEN v ELSE v + 2 ^ p
ClearBit(v, p) == IF Bit(v, p) = 1 THEN v - 2 ^ p ELSE v

\* InputManager::update_input(active) on [pin_idx, raw_vector]
update_input(im, active) ==
    LET raw == IF active THEN SetBit(im.raw_vector, im.pin_idx)
               ELSE ClearBit(im.raw_vector, im.pin_idx)
        idx == im.pin_idx + 1
    IN [pin_idx |-> IF idx > 2 THEN 0 ELSE idx, raw_vector |-> raw]

\* InputManager::process_result(): the acquisition of pin pin_idx has
\* ended; active is value < tsc_threshold
ProcessResult ==
    \E active \in BOOLEAN :
        IF pin_idx > 2
        THEN /\ result' = "Panic"
             /\ UNCHANGED <<pin_idx, raw_vector, last_vector, sampled>>
             /\ UNCHANGED ingress_vars
        ELSE \E im \in {update_input([pin_idx |-> pin_idx,
                                       raw_vector |-> raw_vector], active)} :
                /\ pin_idx' = im.pin_idx
                /\ raw_vector' = im.raw_vector
                /\ sampled' = pin_idx
                /\ result' = IF im.pin_idx = 2 THEN "Ok" ELSE "Incomplete"
                /\ UNCHANGED last_vector
                /\ UNCHANGED ingress_vars

\* the match of output() on the raw vector
InputEventOf(v) ==
    CASE v = ALL -> "Multi"
      [] v = LEFT_RIGHT -> "Dual"
      [] v = LEFT_MIDDLE -> "LeftMiddle"
      [] v = RIGHT_MIDDLE -> "RightMiddle"
      [] v = LEFT -> "Left"
      [] v = MIDDLE -> "Middle"
      [] v = RIGHT -> "Right"
      [] v = NONE -> "NoInput"
      [] OTHER -> "InvalidInputVector"

\* InputManager::output()
Output ==
    /\ result' = IF raw_vector # last_vector THEN InputEventOf(raw_vector)
                 ELSE "NoInput"
    /\ last_vector' = raw_vector
    /\ UNCHANGED <<pin_idx, raw_vector, sampled>>
    /\ UNCHANGED ingress_vars

NextInput == ProcessResult \/ Output

SpecInput == Init /\ [][NextInput]_vars

TypeOK ==
    /\ state \in States
    /\ buffer.btype \in Types
    /\ Len(buffer.payload) <= BuffSize
    /\ hex_idx \in {0, 1}
    /\ panicked \in BOOLEAN

\* ------------------------------------------------------------------------
\* Properties
\* ------------------------------------------------------------------------
\* the bytes the process() call just made has dequeued
Consumed == BytesOf(steps)
\* the queue as that call found it
QueueAtCall == Consumed \o rb
\* process() was just called with frame F at the head of the queue
Called(F) == steps # <<>> /\ IsPrefix(F, QueueAtCall)
\* the dispatches of that call
Dispatches == DispatchesOf(calls)
\* the frame buffer content a dispatch was handed
DispatchBuf(d) == IF d.op = "add" THEN d.arg.buf ELSE d.arg
\* the collaborator a type byte selects
DispatchOpOf(t) == IF t = ChN THEN "add" ELSE "from_str"

\* C1: for every body of non-delimiter bytes that fits the frame buffer,
\* processing STX,'S',US,body,ETX makes exactly one dispatch, a Syscall
\* parse of a buffer equal to body, and leaves the state Wait.
C1_SyscallFrameDispatched ==
    \A body \in Bodies :
        (Len(body) <= BuffSize /\ Called(SyscallFrame(body)))
            => /\ Len(Dispatches) = 1
               /\ Dispatches[1].op = "from_str"
               /\ Dispatches[1].arg = body
               /\ state = "Wait"

C1_Witness ==
    /\ Called(SyscallFrame(<<Ch4, ChS>>))
    /\ Dispatches = <<Call("from_str", <<Ch4, ChS>>, TRUE)>>
    /\ state = "Wait"

\* what add() must be handed for source, title and body
NotificationArg(src, title, body) ==
    [buf |-> src \o title \o body,
     nsi |-> <<Len(src), Len(src) + Len(title),
               Len(src) + Len(title) + Len(body)>>]

NotificationHandedOver(src, title, body) ==
    /\ Len(Dispatches) = 1
    /\ Dispatches[1].op = "add"
    /\ Dispatches[1].arg = NotificationArg(src, title, body)

\* C2 as stated: for all non-delimiter strings src, title, body, processing
\* STX,'N',US,src,US,title,US,body,ETX hands add() exactly once the buffer
\* src++title++body and the cumulative lengths as section indices.
C2_AnyLength ==
    \A f \in NotificationFields :
        Called(NotificationFrame(f[1], f[2], f[3]))
            => NotificationHandedOver(f[1], f[2], f[3])

\* C2 amended: the same for src, title, body whose total length fits the
\* frame buffer.
C2_NotificationFrameDispatched ==
    \A f \in NotificationFields :
        (Len(f[1]) + Len(f[2]) + Len(f[3]) <= BuffSize
         /\ Called(NotificationFrame(f[1], f[2], f[3])))
            => NotificationHandedOver(f[1], f[2], f[3])

C2_Witness ==
    /\ Called(NotificationFrame(<<ChS>>, <<>>, <<Ch4>>))
    /\ Dispatches = <<Call("add", [buf |-> <<ChS, Ch4>>, nsi |-> <<1, 1, 2>>],
                           FALSE)>>

\* the bytes a hex field stands for, first character the high nibble
RECURSIVE DecodePairs(_)
DecodePairs(cs) ==
    IF Len(cs) < 2 THEN <<>>
    ELSE <<HexVal(cs[1]) * 16 + HexVal(cs[2])>>
             \o DecodePairs(SubSeq(cs, 3, Len(cs)))

OpsArgs(cs) == [i \in 1..Len(cs) |-> <<cs[i].op, cs[i].arg>>]
Tagged(op, vals) == [i \in 1..Len(vals) |-> <<op, vals[i]>>]

\* what the application manager must see for checksum c and firmware f
ApplicationCalls(c, f) ==
    <<<<"kill", 0>>>> \o Tagged("write_checksum_byte", DecodePairs(c))
        \o Tagged("write_ram_byte", DecodePairs(f)) \o <<<<"verify", 0>>>>

\* the application manager accepted every byte it was handed
AllBytesAccepted ==
    \A i \in 1..Len(calls) :
        calls[i].op \in {"write_checksum_byte", "write_ram_byte"} => calls[i].ok

OneDispatchOf(t, body) ==
    /\ Len(Dispatches) = 1
    /\ Dispatches[1].op = DispatchOpOf(t)
    /\ DispatchBuf(Dispatches[1]) = body

\* C4 as stated: for STX,type,body,ETX with type 'N' or 'S' and body any
\* non-delimiter bytes directly after the type byte, exactly one dispatch
\* occurs, of the type selected, with a frame buffer equal to body.
C4_BodyAfterTypeByte ==
    \A t \in {ChN, ChS}, body \in BareBodies :
        Called(BareFrame(t, body)) => OneDispatchOf(t, body)

\* C4 amended: the same for STX,type,US,body,ETX, the body separated from
\* the type byte by a field separator and fitting the frame buffer.
C4_TypedFrameDispatched ==
    \A t \in {ChN, ChS}, body \in Bodies :
        (Len(body) <= BuffSize /\ Called(TypedFrame(t, body)))
            => OneDispatchOf(t, body)

C4_Witness ==
    /\ Called(TypedFrame(ChN, <<ChS>>))
    /\ Len(Dispatches) = 1
    /\ Dispatches[1].op = "add"
    /\ Dispatches[1].arg.buf = <<ChS>>

\* C5 as stated: each completed frame is dispatched once: the dispatches
\* never outnumber the STX bytes dequeued, and an ETX dequeued in state Wait
\* with no STX since the previous ETX causes no dispatch.
C5_DispatchOncePerFrame ==
    /\ ndispatch <= nstx
    /\ \A i \in 1..Len(steps) :
          (steps[i].byte = ETX /\ steps[i].before.state = "Wait"
           /\ steps[i].before.lastMark = ETX)
              => Dispatches = <<>>

StoringStates ==
    {"Payload", "NotificationSource", "NotificationTitle", "NotificationBody"}
Stores(st) == st.before.state \in StoringStates /\ st.byte \notin Delims
\* the bytes stored by the steps after step i
StoredAfter(i) == BytesOf(SelectSeq(SubSeq(steps, i + 1, Len(steps)), Stores))
\* the last STX among the steps (0: none)
LastStx ==
    LET at == {i \in 1..Len(steps) : steps[i].byte = STX}
    IN IF at = {} THEN 0 ELSE CHOOSE i \in at : \A j \in at : j <= i

\* C7: an STX dequeued in a state other than Wait makes no collaborator
\* call and no fault and leaves state Init, hex index 0, section cursor 0
\* and an empty frame buffer; the frame buffer then holds only bytes
\* dequeued after the STX, and so does whatever is dispatched.
C7_StxRestartsCleanly ==
    \A i \in 1..Len(steps) :
        (steps[i].byte = STX /\ steps[i].before.state # "Wait")
            => /\ steps[i].after.state = "Init"
               /\ steps[i].after.hex_idx = 0
               /\ steps[i].after.nsi_idx = 0
               /\ steps[i].after.payload = <<>>
               /\ ~steps[i].after.panicked
               /\ steps[i].after.ncalls = steps[i].before.ncalls
               /\ IsPrefix(buffer.payload, StoredAfter(LastStx))
               /\ ~panicked => buffer.payload = StoredAfter(LastStx)
               /\ \A k \in 1..Len(Dispatches) :
                     Dispatches[k].op # "verify"
                         => DispatchBuf(Dispatches[k]) = StoredAfter(LastStx)

C7_Witness ==
    /\ Len(steps) = 4
    /\ ~panicked
    /\ steps[1].byte = STX
    /\ steps[1].before.state = "NotificationSource"
    /\ steps[1].before.payload = <<ChS>>
    /\ Consumed = <<STX, ChS, PAYLOAD, ETX>>
    /\ Dispatches = <<Call("from_str", <<>>, TRUE)>>

ApplicationStates == {"ApplicationChecksum", "ApplicationStore"}
\* step i completes a hex pair with a character that is no hex digit
BadPairAt(i) ==
    /\ steps[i].before.state \in ApplicationStates
    /\ steps[i].before.hex_idx = 1
    /\ steps[i].byte \notin Delims
    /\ (HexVal(steps[i].before.hex0) < 0 \/ HexVal(steps[i].byte) < 0)
\* the calls made after step i and before the next STX
CallsOfFrameAfter(i) ==
    LET stx == {j \in (i + 1)..Len(steps) : steps[j].byte = STX}
        last == IF stx = {} THEN Len(calls)
                ELSE steps[CHOOSE j \in stx : \A k \in stx : j <= k].before.ncalls
    IN SubSeq(calls, steps[i].after.ncalls + 1, last)

\* C8 as stated: a hex pair with a character that is no hex digit resets
\* the hex index, sets the state to Wait and aborts the frame: no
\* write_checksum_byte, write_ram_byte or verify call is made before the
\* next STX.
C8_BadHexAbortsFrame ==
    \A i \in 1..Len(steps) :
        BadPairAt(i)
            => /\ steps[i].after.state = "Wait"
               /\ steps[i].after.hex_idx = 0
               /\ \A k \in 1..Len(CallsOfFrameAfter(i)) :
                     CallsOfFrameAfter(i)[k].op \notin
                         {"write_checksum_byte", "write_ram_byte", "verify"}

\* C9: a first byte after STX other than 'N', 'S', 'A' (or another STX)
\* leaves the buffer type Unknown and the state Wait; they stay so on every
\* byte but STX, and the ETX of such a frame causes no dispatch.
C9_UnknownTypeNoDispatch ==
    \A i \in 1..Len(steps) :
        /\ (steps[i].before.lastByte = STX
            /\ steps[i].byte \notin {ChN, ChS, ChA, STX})
               => /\ steps[i].after.btype = "Unknown"
                  /\ steps[i].after.state = "Wait"
                  /\ (\A j \in (i + 1)..Len(steps) : steps[j].byte # STX)
                        => Dispatches = <<>>
        /\ (steps[i].before.state = "Wait" /\ steps[i].before.btype = "Unknown"
            /\ steps[i].byte # STX)
               => /\ steps[i].after.btype = "Unknown"
                  /\ steps[i].after.state = "Wait"
                  /\ steps[i].after.ncalls = steps[i].before.ncalls
                  /\ steps[i].byte = ETX
                        => /\ ret = "Unknown"
                           /\ Len(calls) = steps[i].before.ncalls
                           /\ Dispatches = <<>>
                           /\ state = "Wait"

C9_Witness ==
    /\ Consumed = <<STX, Ch4, ChS, PAYLOAD, ETX>>
    /\ ret = "Unknown"
    /\ calls = <<>>
    /\ state = "Wait"

\* C10 as stated: a verify() failure at the ETX of an Application frame
\* leaves the engine in state Wait and serving.
C10_VerifyFailureNotFatal ==
    (\E k \in 1..Len(calls) : calls[k].op = "verify" /\ ~calls[k].ok)
        => (state = "Wait" /\ ~panicked)

\* ------------------------------------------------------------------------
\* The byte queue
\* ------------------------------------------------------------------------
Min(a, b) == IF a < b THEN a ELSE b

\* C11: the queue never holds more than 512 bytes, and a write() accepts
\* its bytes in order up to the 512th queued byte: it signals overflow
\* exactly when it is handed more bytes than the queue has free slots.
C11_QueueHoldsCapacity ==
    [][/\ Len(rb') <= RbCapacity
       /\ nwrites' # nwrites =>
             /\ Len(rb') = Min(Len(rb) + offered', RbCapacity)
             /\ IsPrefix(rb, rb')
             /\ panicked' = (Len(rb) + offered' > RbCapacity)]_vars

\* two bursts have filled the queue to the last slot and the next byte
\* overflows it
C11_Witness ==
    /\ panicked
    /\ nwrites = 3
    /\ offered = 1
    /\ Len(rb) = RbCapacity

\* ------------------------------------------------------------------------
\* Failed dispatches
\* ------------------------------------------------------------------------
\* the fields of the engine
Core(m) ==
    [state |-> m.state, buffer |-> m.buffer, hex_chars |-> m.hex_chars,
     hex_idx |-> m.hex_idx, nsi |-> m.nsi, nsi_idx |-> m.nsi_idx,
     panicked |-> m.panicked]
\* engine m at the start of the next process() call
Resume(m) == [m EXCEPT !.calls = <<>>, !.steps = <<>>, !.nwr = 0]
\* collaborators that accept everything
NoRejection == [rej |-> {}]
Accepted == [ok |-> TRUE]
\* the dispatches of the process() call that follows result r
NextDispatches(r, o, a) ==
    DispatchesOf(process(match_rb(Resume(r.m), r.rb, o), a).m.calls)

\* C12: when the process() call about to be made ends in a Notification or
\* Syscall dispatch, a failing add() or from_str() leaves every field of
\* the engine and the queue as a succeeding one does, the state Wait, and
\* the process() call after it makes the same dispatches either way
\* (compared for collaborators that accept everything).
C12_FailedDispatchHarmless ==
    ~panicked =>
        \A r \in {match_rb(Engine, rb, o) : o \in Rejections} :
            (r.ret \in {"Notification", "Syscall"} /\ ~r.m.panicked)
                => \E s \in {process(r, [ok |-> TRUE])},
                      f \in {process(r, [ok |-> FALSE])} :
                      /\ Core(f.m) = Core(s.m)
                      /\ f.m.state = "Wait"
                      /\ f.rb = s.rb
                      /\ NextDispatches(f, NoRejection, Accepted)
                            = NextDispatches(s, NoRejection, Accepted)

\* a rejected add() has just happened and the next frame, a Notification
\* frame, is still queued
C12_Witness ==
    /\ Len(Dispatches) = 1
    /\ Dispatches[1].op = "add"
    /\ ~Dispatches[1].ok
    /\ state = "Wait"
    /\ ~panicked
    /\ rb \in NotificationFrames

\* ------------------------------------------------------------------------
\* Dependence on earlier frames
\* ------------------------------------------------------------------------
\* the dispatches engine m makes when it finds queue q
DispatchesFrom(m, q, o, a) == DispatchesOf(process(match_rb(m, q, o), a).m.calls)

\* C13 as stated: what is dispatched depends only on the bytes since the
\* last STX: this engine, with an empty queue, and a newly constructed one
\* make the same dispatches (type, frame buffer, section indices) of every
\* frame, given the same collaborator answers.
C13_DeterministicSinceStx ==
    (~panicked /\ rb = <<>>)
        => \A F \in Frames, o \in Rejections, a \in Answers :
              DispatchesFrom(Engine, F, o, a) = DispatchesFrom(new, F, o, a)

\* ------------------------------------------------------------------------
\* The state at construction
\* ------------------------------------------------------------------------
\* C14 as stated: a newly constructed engine (state Init) makes the same
\* dispatches of the bytes it finds queued as one that starts in Wait, and
\* no dispatch is made before the first STX has been dequeued.
C14_InitAsWait ==
    /\ nstx = 0 => ndispatch = 0
    /\ (lastByte = 0 /\ ~panicked)
          => \A o \in Rejections, a \in Answers :
                DispatchesFrom(Engine, rb, o, a)
                    = DispatchesFrom([Engine EXCEPT !.state = "Wait"], rb, o, a)

\* ------------------------------------------------------------------------
\* The Wait state
\* ------------------------------------------------------------------------
\* C15 as stated: a byte other than STX dequeued in state Wait leaves the
\* state Wait and the frame buffer as it was, and no collaborator is
\* called for it, neither by the state machine nor by a dispatch.
C15_WaitLeftOnlyOnStx ==
    \A i \in 1..Len(steps) :
        (steps[i].before.state = "Wait" /\ steps[i].byte # STX)
            => /\ steps[i].after.state = "Wait"
               /\ steps[i].after.payload = steps[i].before.payload
               /\ steps[i].after.btype = steps[i].before.btype
               /\ steps[i].after.ncalls = steps[i].before.ncalls
               /\ i = Len(steps) => Len(calls) = steps[i].after.ncalls

\* ------------------------------------------------------------------------
\* kill() in an Application frame
\* ------------------------------------------------------------------------
\* step i calls kill()
KillAt(i) ==
    /\ steps[i].after.ncalls = steps[i].before.ncalls + 1
    /\ calls[steps[i].after.ncalls].op = "kill"
\* the number of calls made when the frame of step i began: at the last STX
\* before step i, or at the start of this process() call
CallsAtFrameStart(i) ==
    LET stx == {j \in 1..(i - 1) : steps[j].byte = STX}
    IN IF stx = {} THEN 0
       ELSE steps[CHOOSE j \in stx : \A k \in stx : k <= j].after.ncalls

\* C16 as stated: kill() is called at the first field separator after the
\* type byte of an Application frame (state Init) and at no other byte; the
\* separator dequeued in ApplicationChecksum moves to ApplicationStore with
\* no call; and no kill() follows a write_checksum_byte or write_ram_byte
\* call of the same frame.
C16_KillOnlyAtFirstSeparator ==
    \A i \in 1..Len(steps) :
        /\ (steps[i].byte = PAYLOAD /\ steps[i].before.btype = "Application"
            /\ steps[i].before.state = "Init")
               => (KillAt(i) /\ steps[i].after.state = "ApplicationChecksum")
        /\ (steps[i].byte = PAYLOAD
            /\ steps[i].before.state = "ApplicationChecksum")
               => /\ steps[i].after.state = "ApplicationStore"
                  /\ steps[i].after.ncalls = steps[i].before.ncalls
        /\ KillAt(i)
               => /\ steps[i].byte = PAYLOAD
                  /\ steps[i].before.state = "Init"
                  /\ \A k \in (CallsAtFrameStart(i) + 1)..steps[i].before.ncalls :
                        calls[k].op \notin
                            {"write_checksum_byte", "write_ram_byte"}

\* ------------------------------------------------------------------------
\* Polling
\* ------------------------------------------------------------------------
RecognizedTypes == {"Application", "Notification", "Syscall"}
\* a process() call dequeues from the head of the queue, in order, and
\* dispatches the frame whose ETX it dequeues when the type is recognized
DequeuesInOrder ==
    steps' # <<>>
        => /\ rb = BytesOf(steps') \o rb'
           /\ ret' \in RecognizedTypes
                 => /\ steps'[Len(steps')].byte = ETX
                    /\ Len(DispatchesOf(calls')) = 1

\* C17 as stated: polled again and again, the engine empties the queue
\* whenever the writes pause; the bytes are dequeued once each in the
\* order written and each recognized frame is dispatched at its ETX.
C17_QueueDrained ==
    /\ []<>(rb = <<>>)
    /\ [][DequeuesInOrder]_vars

\* C17 amended: the same unless the engine has halted on a fatal condition.
C17_QueueDrainedUnlessHalted ==
    /\ []<>(rb = <<>> \/ panicked)
    /\ [][DequeuesInOrder]_vars

\* two queued frames have been dequeued and dispatched by two calls
C17_Witness ==
    /\ rb = <<>>
    /\ ~panicked
    /\ Consumed \in NotificationFrames
    /\ Len(Dispatches) = 1
    /\ nwrites = 2
    /\ nstx = 2
    /\ ndispatch = 2

\* ------------------------------------------------------------------------
\* Section indices
\* ------------------------------------------------------------------------
\* C18 as stated: the section indices handed to add() are ordered and the
\* last one is the number of bytes in the frame buffer.
C18_SectionIndicesOrdered ==
    \A k \in 1..Len(Dispatches) :
        Dispatches[k].op = "add"
            => /\ Dispatches[k].arg.nsi[1] <= Dispatches[k].arg.nsi[2]
               /\ Dispatches[k].arg.nsi[2] <= Dispatches[k].arg.nsi[3]
               /\ Dispatches[k].arg.nsi[3] = Len(Dispatches[k].arg.buf)

\* ------------------------------------------------------------------------
\* Hex pairs and fields
\* ------------------------------------------------------------------------
\* step i hands a byte to write_ram_byte
RamByteAt(i) ==
    /\ steps[i].after.ncalls = steps[i].before.ncalls + 1
    /\ calls[steps[i].after.ncalls].op = "write_ram_byte"

\* C19 as stated: the hex index is 0 or 1 between bytes; no character is
\* pending when the second separator opens the firmware field; and a byte
\* handed to write_ram_byte is decoded from the character just dequeued and
\* the one dequeued before it, both in ApplicationStore.
C19_HexPairsWithinField ==
    \A i \in 1..Len(steps) :
        /\ steps[i].after.hex_idx \in {0, 1}
        /\ (steps[i].before.state = "ApplicationChecksum"
            /\ steps[i].after.state = "ApplicationStore")
               => steps[i].after.hex_idx = 0
        /\ (RamByteAt(i) /\ i > 1)
               => /\ steps[i - 1].byte \notin Delims
                  /\ steps[i - 1].before.state = "ApplicationStore"
                  /\ steps[i - 1].before.hex_idx = 0

\* ------------------------------------------------------------------------
\* The input scan
\* ------------------------------------------------------------------------
\* C20 as stated: process_result returns Ok(()) exactly for the call that
\* samples pin index 2, the last pin of a scan, and Err(Incomplete) for
\* the calls that sample pin 0 or 1; the pin index stays within 0..2.
C20_OkAfterThirdPin ==
    /\ pin_idx \in {0, 1, 2}
    /\ result = "Ok" => sampled = 2
    /\ result = "Incomplete" => sampled \in {0, 1}

====
